---- MODULE Spec2Model ----
(***************************************************************************)
(* Model of verifier/verifier.go: Verifier.VerifyAddress, VerifyEmail and  *)
(* VerifyAddressTimeout.  Every call c has its own caller thread (cpc),    *)
(* its own run of VerifyAddress (vpc) and, for VerifyAddressTimeout, its   *)
(* own channel and deadline timer.  The collaborators (ParseAddress,       *)
(* IsDisposable, HasGravatar, NewDeliverabler, HasCatchAll, IsDeliverable, *)
(* parseRCPTErr, parseSTDErr) are the environment: each call site draws    *)
(* the collaborator's answer from a small set.                             *)
(***************************************************************************)
EXTENDS Naturals, Sequences, FiniteSets

VARIABLES
    entry,   \* entry[c]: the exported method call c entered through
    cpc,     \* cpc[c]:   position of the caller's thread
    vpc,     \* vpc[c]:   position inside VerifyAddress
    l,       \* l[c]:     the Lookup VerifyAddress is populating
    ops,     \* ops[c]:   collaborator calls issued by call c, in order
    vres,    \* vres[c]:  the (Lookup, error) pair VerifyAddress returns
    ch,      \* ch[c]:    the buffered channel of VerifyAddressTimeout
    timer,   \* timer[c]: the time.After timer of VerifyAddressTimeout
    first,   \* first[c]: which of result / timer became ready first
    ret      \* ret[c]:   what the caller of the exported method received

vars == <<entry, cpc, vpc, l, ops, vres, ch, timer, first, ret>>

\* The calls of the model; Solo is the call of the single-call specification.
Calls == {"c1", "c2"}
Solo == {"c1"}

\* make(chan interface{}, 1)
ChanCap == 1

---------------------------------------------------------------------------
(* Values *)

\* A nil *Lookup; a non-nil *Lookup is the one-element sequence <<lookup>>.
NilLookup == <<>>
\* A nil error; a non-nil error is its message.
NilErr == "nil"

ErrUnexpectedResponse == "ErrUnexpectedResponse"
ErrTimeout == "ErrTimeout"
ErrEmailParseFailure == "ErrEmailParseFailure"
ErrNoSuchHost == "ErrNoSuchHost"
ErrFullInbox == "ErrFullInbox"
\* a retry-later rejection that outlived its retries
ErrTemporaryRejection == "ErrTemporaryRejection"

\* What parseRCPTErr can hand back for a non-nil error: nil, or a LookupError
\* (VerifyAddress tests le != nil at both call sites).
ParseRCPTErrResults ==
    {NilErr, ErrNoSuchHost, ErrFullInbox, ErrTemporaryRejection, ErrUnexpectedResponse}

\* What parseSTDErr hands back for the non-nil error of a failed open.
ParseSTDErrResults == {ErrNoSuchHost, ErrTimeout, ErrUnexpectedResponse}

\* The outcomes of del.IsDeliverable: err == nil, or a non-nil err together
\* with what parseRCPTErr makes of it.
IsDeliverableOutcomes ==
    {[err |-> FALSE, le |-> NilErr]} \cup {[err |-> TRUE, le |-> x] : x \in ParseRCPTErrResults}

\* The Address of call c (each call verifies its own address).
AddressOf(c) == c

Entries == {"VerifyAddress", "VerifyEmail", "VerifyAddressTimeout"}

\* The zero Lookup (no call has populated it yet).
ZeroLookup ==
    [address |-> "", deliverable |-> FALSE, fullInbox |-> FALSE, hostExists |-> FALSE,
     catchAll |-> FALSE, disposable |-> FALSE, gravatar |-> FALSE]

Op(name, res, le) == [op |-> name, res |-> res, le |-> le]

NoResult == [lookup |-> NilLookup, err |-> NilErr, via |-> "none"]
Result(lk, e, via) == [lookup |-> lk, err |-> e, via |-> via]

---------------------------------------------------------------------------
(* VerifyAddress, lines 84-129 *)

\* mutant: the literal also presets Deliverable, as it presets HostExists
InitLookupOptimistic(addr, disp, grav) ==
    [address |-> addr, deliverable |-> TRUE, fullInbox |-> FALSE, hostExists |-> TRUE,
     catchAll |-> FALSE, disposable |-> disp, gravatar |-> grav]

\* l := &Lookup{Address, HostExists: true, Disposable, Gravatar}
InitLookup(addr, disp, grav) ==
    [address |-> addr, deliverable |-> FALSE, fullInbox |-> FALSE, hostExists |-> TRUE,
     catchAll |-> FALSE, disposable |-> disp, gravatar |-> grav]

\* mutant: the failed open hands back the lookup along with the error
OpenFailedReturnsLookup(lk, le, se) ==
    [l   |-> IF le # NilErr /\ le = ErrNoSuchHost THEN [lk EXCEPT !.hostExists = FALSE] ELSE lk,
     res |-> Result(<<lk>>, se, "direct")]

\* mutant: every failed open clears HostExists
OpenFailedAlwaysNoHost(lk, le, se) ==
    [l   |-> [lk EXCEPT !.hostExists = FALSE],
     res |-> Result(NilLookup, se, "direct")]

\* NewDeliverabler failed: le := parseRCPTErr(err); HostExists = false when
\* le is ErrNoSuchHost; return nil, parseSTDErr(err)
OpenFailed(lk, le, se) ==
    [l   |-> IF le # NilErr /\ le = ErrNoSuchHost THEN [lk EXCEPT !.hostExists = FALSE] ELSE lk,
     res |-> Result(NilLookup, se, "direct")]

\* mutant: a catch-all server only sets CatchAll
HasCatchAllOnlyFlag(lk, b) ==
    IF b THEN [lk EXCEPT !.catchAll = TRUE] ELSE lk

\* mutant: a catch-all domain is also flagged disposable
HasCatchAllFlagsDisposable(lk, b) ==
    IF b THEN [lk EXCEPT !.catchAll = TRUE, !.deliverable = TRUE, !.disposable = TRUE] ELSE lk

\* if del.HasCatchAll(3) { l.CatchAll = true; l.Deliverable = true }
HasCatchAllResult(lk, b) ==
    IF b THEN [lk EXCEPT !.catchAll = TRUE, !.deliverable = TRUE] ELSE lk

\* mutant: the real-address probe runs whatever the catch-all test said
AlwaysProbe(lk) == TRUE

\* if !l.CatchAll
ProbeAddress(lk) == ~lk.catchAll

\* mutant: the else branch is lost, every classified failure is swallowed
IsDeliverableSwallow(lk, o) ==
    IF o.err
    THEN IF o.le # NilErr /\ o.le = ErrFullInbox
         THEN [returns |-> FALSE, l |-> [lk EXCEPT !.fullInbox = TRUE], res |-> NoResult]
         ELSE [returns |-> FALSE, l |-> lk, res |-> NoResult]
    ELSE [returns |-> FALSE, l |-> [lk EXCEPT !.deliverable = TRUE], res |-> NoResult]

\* mutant: a full inbox is also marked deliverable
IsDeliverableFullIsDeliverable(lk, o) ==
    IF o.err
    THEN IF o.le # NilErr
         THEN IF o.le = ErrFullInbox
              THEN [returns |-> FALSE,
                    l |-> [lk EXCEPT !.fullInbox = TRUE, !.deliverable = TRUE],
                    res |-> NoResult]
              ELSE [returns |-> TRUE, l |-> lk, res |-> Result(NilLookup, o.le, "direct")]
         ELSE [returns |-> FALSE, l |-> lk, res |-> NoResult]
    ELSE [returns |-> FALSE, l |-> [lk EXCEPT !.deliverable = TRUE], res |-> NoResult]

\* mutant: ErrFullInbox is returned like every other classified failure
IsDeliverableFullIsError(lk, o) ==
    IF o.err
    THEN IF o.le # NilErr
         THEN [returns |-> TRUE, l |-> lk, res |-> Result(NilLookup, o.le, "direct")]
         ELSE [returns |-> FALSE, l |-> lk, res |-> NoResult]
    ELSE [returns |-> FALSE, l |-> [lk EXCEPT !.deliverable = TRUE], res |-> NoResult]

\* mutant: a failure parseRCPTErr maps to nil counts as deliverable
IsDeliverableNilIsDeliverable(lk, o) ==
    IF o.err
    THEN IF o.le # NilErr
         THEN IF o.le = ErrFullInbox
              THEN [returns |-> FALSE, l |-> [lk EXCEPT !.fullInbox = TRUE], res |-> NoResult]
              ELSE [returns |-> TRUE, l |-> lk, res |-> Result(NilLookup, o.le, "direct")]
         ELSE [returns |-> FALSE, l |-> [lk EXCEPT !.deliverable = TRUE], res |-> NoResult]
    ELSE [returns |-> FALSE, l |-> [lk EXCEPT !.deliverable = TRUE], res |-> NoResult]

\* if err := del.IsDeliverable(...); err != nil { le := parseRCPTErr(err) ... }
\* else { l.Deliverable = true }
IsDeliverableResult(lk, o) ==
    IF o.err
    THEN IF o.le # NilErr
         THEN IF o.le = ErrFullInbox
              THEN [returns |-> FALSE, l |-> [lk EXCEPT !.fullInbox = TRUE], res |-> NoResult]
              ELSE [returns |-> TRUE, l |-> lk, res |-> Result(NilLookup, o.le, "direct")]
         ELSE [returns |-> FALSE, l |-> lk, res |-> NoResult]
    ELSE [returns |-> FALSE, l |-> [lk EXCEPT !.deliverable = TRUE], res |-> NoResult]

\* mutant: the deferred Close is never registered
DeferCloseMissing(o) == o

\* defer del.Close(): runs as VerifyAddress returns
DeferClose(o) == Append(o, Op("Close", "ok", NilErr))

\* return l, nil
ReturnLookup(lk) == Result(<<lk>>, NilErr, "direct")

\* mutant: the Lookup being populated is one field of the Verifier, shared by
\* all calls
VA_InitShared(c) ==
    /\ vpc[c] = "start"
    /\ \E disp \in BOOLEAN, grav \in BOOLEAN :
          /\ l' = [d \in Calls |-> InitLookup(AddressOf(c), disp, grav)]
          /\ ops' = [ops EXCEPT ![c] = @ \o <<Op("IsDisposable", IF disp THEN "true" ELSE "false", NilErr),
                                              Op("HasGravatar", IF grav THEN "true" ELSE "false", NilErr)>>]
    /\ vpc' = [vpc EXCEPT ![c] = "open"]
    /\ UNCHANGED <<entry, cpc, vres, ch, timer, first, ret>>

\* l := &Lookup{...}: the disposable and gravatar lookups answer
VA_Init(c) ==
    /\ vpc[c] = "start"
    /\ \E disp \in BOOLEAN, grav \in BOOLEAN :
          /\ l' = [l EXCEPT ![c] = InitLookup(AddressOf(c), disp, grav)]
          /\ ops' = [ops EXCEPT ![c] = @ \o <<Op("IsDisposable", IF disp THEN "true" ELSE "false", NilErr),
                                              Op("HasGravatar", IF grav THEN "true" ELSE "false", NilErr)>>]
    /\ vpc' = [vpc EXCEPT ![c] = "open"]
    /\ UNCHANGED <<entry, cpc, vres, ch, timer, first, ret>>

\* mutant: the defer keyword is lost, Close runs right after the open
VA_OpenOkCloses(c) ==
    /\ vpc[c] = "open"
    /\ ops' = [ops EXCEPT ![c] = @ \o <<Op("Open", "ok", NilErr), Op("Close", "ok", NilErr)>>]
    /\ vpc' = [vpc EXCEPT ![c] = "catchall"]
    /\ UNCHANGED <<entry, cpc, l, vres, ch, timer, first, ret>>

\* del, err := NewDeliverabler(...) with err == nil
VA_OpenOk(c) ==
    /\ vpc[c] = "open"
    /\ ops' = [ops EXCEPT ![c] = Append(@, Op("Open", "ok", NilErr))]
    /\ vpc' = [vpc EXCEPT ![c] = "catchall"]
    /\ UNCHANGED <<entry, cpc, l, vres, ch, timer, first, ret>>

\* mutant: the return after the failed open is lost, probing goes on
VA_OpenFailContinues(c) ==
    /\ vpc[c] = "open"
    /\ \E le \in ParseRCPTErrResults, se \in ParseSTDErrResults :
          LET r == OpenFailed(l[c], le, se) IN
          /\ l' = [l EXCEPT ![c] = r.l]
          /\ ops' = [ops EXCEPT ![c] = Append(@, Op("Open", "fail", le))]
    /\ vpc' = [vpc EXCEPT ![c] = "catchall"]
    /\ UNCHANGED <<entry, cpc, vres, ch, timer, first, ret>>

\* del, err := NewDeliverabler(...) with err != nil: return before the defer
VA_OpenFail(c) ==
    /\ vpc[c] = "open"
    /\ \E le \in ParseRCPTErrResults, se \in ParseSTDErrResults :
          LET r == OpenFailed(l[c], le, se) IN
          /\ l' = [l EXCEPT ![c] = r.l]
          /\ vres' = [vres EXCEPT ![c] = r.res]
          /\ ops' = [ops EXCEPT ![c] = Append(@, Op("Open", "fail", le))]
    /\ vpc' = [vpc EXCEPT ![c] = "returned"]
    /\ UNCHANGED <<entry, cpc, ch, timer, first, ret>>

\* del.HasCatchAll(3), then either return l, nil or go on to IsDeliverable
VA_HasCatchAll(c) ==
    /\ vpc[c] = "catchall"
    /\ \E b \in BOOLEAN :
          LET lk == HasCatchAllResult(l[c], b) IN
          /\ l' = [l EXCEPT ![c] = lk]
          /\ ops' = [ops EXCEPT ![c] = Append(@, Op("HasCatchAll", IF b THEN "true" ELSE "false", NilErr))]
          /\ IF ProbeAddress(lk)
             THEN /\ vpc' = [vpc EXCEPT ![c] = "deliverable"]
                  /\ vres' = vres
             ELSE /\ vpc' = [vpc EXCEPT ![c] = "defer"]
                  /\ vres' = [vres EXCEPT ![c] = ReturnLookup(lk)]
    /\ UNCHANGED <<entry, cpc, ch, timer, first, ret>>

\* del.IsDeliverable(address.Address, 3) and the branch on its error
VA_IsDeliverable(c) ==
    /\ vpc[c] = "deliverable"
    /\ \E o \in IsDeliverableOutcomes :
          LET r == IsDeliverableResult(l[c], o) IN
          /\ l' = [l EXCEPT ![c] = r.l]
          /\ ops' = [ops EXCEPT ![c] = Append(@, Op("IsDeliverable", IF o.err THEN "err" ELSE "nil", o.le))]
          /\ vres' = [vres EXCEPT ![c] = IF r.returns THEN r.res ELSE ReturnLookup(r.l)]
    /\ vpc' = [vpc EXCEPT ![c] = "defer"]
    /\ UNCHANGED <<entry, cpc, ch, timer, first, ret>>

\* mutant: a verification whose caller has timed out is cancelled before its
\* deferred Close
VA_CloseUnlessAbandoned(c) ==
    /\ vpc[c] = "defer"
    /\ ~(cpc[c] = "done" /\ ret[c].via = "timeout")
    /\ ops' = [ops EXCEPT ![c] = DeferClose(@)]
    /\ vpc' = [vpc EXCEPT ![c] = "returned"]
    /\ UNCHANGED <<entry, cpc, l, vres, ch, timer, first, ret>>

\* the deferred del.Close() runs and VerifyAddress returns
VA_Close(c) ==
    /\ vpc[c] = "defer"
    /\ ops' = [ops EXCEPT ![c] = DeferClose(@)]
    /\ vpc' = [vpc EXCEPT ![c] = "returned"]
    /\ UNCHANGED <<entry, cpc, l, vres, ch, timer, first, ret>>

VerifyAddress(c) ==
    \/ VA_Init(c)
    \/ VA_OpenOk(c)
    \/ VA_OpenFail(c)
    \/ VA_HasCatchAll(c)
    \/ VA_IsDeliverable(c)
    \/ VA_Close(c)

---------------------------------------------------------------------------
(* The exported entry points *)

\* A caller enters one of the three exported methods.
Call(c) ==
    /\ cpc[c] = "idle"
    /\ \E e \in Entries :
          /\ entry' = [entry EXCEPT ![c] = e]
          /\ cpc' = [cpc EXCEPT ![c] =
                CASE e = "VerifyAddress" -> "call"
                  [] e = "VerifyEmail" -> "parse"
                  [] OTHER -> "go"]
          /\ vpc' = [vpc EXCEPT ![c] = IF e = "VerifyAddress" THEN "start" ELSE @]
    /\ UNCHANGED <<l, ops, vres, ch, timer, first, ret>>

\* mutant: the disposable and gravatar lookups run before the parse error is
\* returned
VE_ParseAfterLookups(c) ==
    /\ cpc[c] = "parse"
    /\ \E ok \in BOOLEAN :
          IF ok
          THEN /\ cpc' = [cpc EXCEPT ![c] = "call"]
               /\ vpc' = [vpc EXCEPT ![c] = "start"]
               /\ ret' = ret
               /\ ops' = ops
          ELSE /\ cpc' = [cpc EXCEPT ![c] = "done"]
               /\ vpc' = vpc
               /\ ret' = [ret EXCEPT ![c] = Result(NilLookup, ErrEmailParseFailure, "parse")]
               /\ ops' = [ops EXCEPT ![c] = @ \o <<Op("IsDisposable", "false", NilErr),
                                                   Op("HasGravatar", "false", NilErr)>>]
    /\ UNCHANGED <<entry, l, vres, ch, timer, first>>

\* VerifyEmail: a, err := ParseAddress(email)
VE_Parse(c) ==
    /\ cpc[c] = "parse"
    /\ \E ok \in BOOLEAN :
          IF ok
          THEN /\ cpc' = [cpc EXCEPT ![c] = "call"]
               /\ vpc' = [vpc EXCEPT ![c] = "start"]
               /\ ret' = ret
          ELSE /\ cpc' = [cpc EXCEPT ![c] = "done"]
               /\ vpc' = vpc
               /\ ret' = [ret EXCEPT ![c] = Result(NilLookup, ErrEmailParseFailure, "parse")]
    /\ UNCHANGED <<entry, l, ops, vres, ch, timer, first>>

\* VerifyAddress / VerifyEmail: the call to v.VerifyAddress returns to the caller
DirectReturn(c) ==
    /\ cpc[c] = "call"
    /\ vpc[c] = "returned"
    /\ ret' = [ret EXCEPT ![c] = vres[c]]
    /\ cpc' = [cpc EXCEPT ![c] = "done"]
    /\ UNCHANGED <<entry, vpc, l, ops, vres, ch, timer, first>>

---------------------------------------------------------------------------
(* VerifyAddressTimeout, lines 40-67 *)

\* mutant: a nil *Lookup is sent as an untyped nil
GoSendUntypedNil(d, err) ==
    IF err # NilErr
    THEN [type |-> "error", lookup |-> NilLookup, err |-> err]
    ELSE IF d = NilLookup
         THEN [type |-> "nil", lookup |-> NilLookup, err |-> NilErr]
         ELSE [type |-> "*Lookup", lookup |-> d, err |-> NilErr]

\* if err != nil { ch <- err } else { ch <- d }: the interface{} value sent
GoSend(d, err) ==
    IF err # NilErr
    THEN [type |-> "error", lookup |-> NilLookup, err |-> err]
    ELSE [type |-> "*Lookup", lookup |-> d, err |-> NilErr]

\* switch r := res.(type)
TypeSwitch(res) ==
    CASE res.type = "*Lookup" -> Result(res.lookup, NilErr, "lookup")
      [] res.type = "error" -> Result(NilLookup, res.err, "error")
      [] OTHER -> Result(NilLookup, ErrUnexpectedResponse, "default")

\* return nil, newLookupError(ErrTimeout, ErrTimeout)
TimeoutResult == Result(NilLookup, ErrTimeout, "timeout")

\* ch := make(chan interface{}, 1); go func() {...}()
VT_Go(c) ==
    /\ cpc[c] = "go"
    /\ ch' = [ch EXCEPT ![c] = <<>>]
    /\ vpc' = [vpc EXCEPT ![c] = "start"]
    /\ cpc' = [cpc EXCEPT ![c] = "after"]
    /\ UNCHANGED <<entry, l, ops, vres, timer, first, ret>>

\* entering the select evaluates time.After(timeout): the timer is armed
VT_After(c) ==
    /\ cpc[c] = "after"
    /\ timer' = [timer EXCEPT ![c] = "armed"]
    /\ cpc' = [cpc EXCEPT ![c] = "select"]
    /\ UNCHANGED <<entry, vpc, l, ops, vres, ch, first, ret>>

\* mutant: the channel is unbuffered, the send needs the caller at its select
VT_SendUnbuffered(c) ==
    /\ entry[c] = "VerifyAddressTimeout"
    /\ vpc[c] = "returned"
    /\ cpc[c] = "select"
    /\ Len(ch[c]) < ChanCap
    /\ ch' = [ch EXCEPT ![c] = Append(@, GoSend(vres[c].lookup, vres[c].err))]
    /\ first' = [first EXCEPT ![c] = IF @ = "none" THEN "result" ELSE @]
    /\ vpc' = [vpc EXCEPT ![c] = "exit"]
    /\ UNCHANGED <<entry, cpc, l, ops, vres, timer, ret>>

\* the goroutine: VerifyAddress has returned, send its result on ch
VT_Send(c) ==
    /\ entry[c] = "VerifyAddressTimeout"
    /\ vpc[c] = "returned"
    /\ Len(ch[c]) < ChanCap
    /\ ch' = [ch EXCEPT ![c] = Append(@, GoSend(vres[c].lookup, vres[c].err))]
    /\ first' = [first EXCEPT ![c] = IF @ = "none" THEN "result" ELSE @]
    /\ vpc' = [vpc EXCEPT ![c] = "exit"]
    /\ UNCHANGED <<entry, cpc, l, ops, vres, timer, ret>>

\* the runtime fires the timer: its channel becomes ready
TimerFire(c) ==
    /\ timer[c] = "armed"
    /\ timer' = [timer EXCEPT ![c] = "fired"]
    /\ first' = [first EXCEPT ![c] = IF @ = "none" THEN "timer" ELSE @]
    /\ UNCHANGED <<entry, cpc, vpc, l, ops, vres, ch, ret>>

\* select: case res := <-ch
VT_Recv(c) ==
    /\ cpc[c] = "select"
    /\ Len(ch[c]) > 0
    /\ ret' = [ret EXCEPT ![c] = TypeSwitch(Head(ch[c]))]
    /\ ch' = [ch EXCEPT ![c] = Tail(@)]
    /\ cpc' = [cpc EXCEPT ![c] = "done"]
    /\ UNCHANGED <<entry, vpc, l, ops, vres, timer, first>>

\* mutant: the deadline case is only taken once the goroutine has finished
VT_TimeoutWaits(c) ==
    /\ cpc[c] = "select"
    /\ timer[c] = "fired"
    /\ vpc[c] = "exit"
    /\ ret' = [ret EXCEPT ![c] = TimeoutResult]
    /\ timer' = [timer EXCEPT ![c] = "received"]
    /\ cpc' = [cpc EXCEPT ![c] = "done"]
    /\ UNCHANGED <<entry, vpc, l, ops, vres, ch, first>>

\* select: case <-time.After(timeout)
VT_Timeout(c) ==
    /\ cpc[c] = "select"
    /\ timer[c] = "fired"
    /\ ret' = [ret EXCEPT ![c] = TimeoutResult]
    /\ timer' = [timer EXCEPT ![c] = "received"]
    /\ cpc' = [cpc EXCEPT ![c] = "done"]
    /\ UNCHANGED <<entry, vpc, l, ops, vres, ch, first>>

VerifyAddressTimeout(c) ==
    \/ VT_Go(c)
    \/ VT_After(c)
    \/ VT_Send(c)
    \/ TimerFire(c)
    \/ VT_Recv(c)
    \/ VT_Timeout(c)

---------------------------------------------------------------------------
(* Specifications *)

Init ==
    /\ entry = [c \in Calls |-> "none"]
    /\ cpc = [c \in Calls |-> "idle"]
    /\ vpc = [c \in Calls |-> "idle"]
    /\ l = [c \in Calls |-> ZeroLookup]
    /\ ops = [c \in Calls |-> <<>>]
    /\ vres = [c \in Calls |-> NoResult]
    /\ ch = [c \in Calls |-> <<>>]
    /\ timer = [c \in Calls |-> "unarmed"]
    /\ first = [c \in Calls |-> "none"]
    /\ ret = [c \in Calls |-> NoResult]

Step(c) ==
    \/ Call(c)
    \/ VE_Parse(c)
    \/ DirectReturn(c)
    \/ VerifyAddress(c)
    \/ VerifyAddressTimeout(c)

\* one call on the Verifier
Next == \E c \in Solo : Step(c)

Spec == Init /\ [][Next]_vars

\* concurrent calls on the same Verifier, interleaved step by step
NextConc == \E c \in Calls : Step(c)

SpecConc == Init /\ [][NextConc]_vars

\* The caller's thread and the runtime's timer are scheduled; the goroutine
\* running VerifyAddress may take arbitrarily long (its network calls block).
FairSpec ==
    /\ Spec
    /\ \A c \in Solo : WF_vars(TimerFire(c))
    /\ \A c \in Solo : WF_vars(VT_Recv(c) \/ VT_Timeout(c))

\* The goroutine is scheduled and the collaborator calls of its VerifyAddress
\* return; the caller and the timer are as in Spec.
BackgroundFairSpec ==
    /\ Spec
    /\ \A c \in Solo : WF_vars(VerifyAddress(c))
    /\ \A c \in Solo : WF_vars(VT_Send(c))

---------------------------------------------------------------------------
(* Properties *)

\* VerifyAddress of call c has returned (to its caller or to the goroutine).
VADone(c) == vpc[c] \in {"returned", "exit"}

Count(c, name) == Len(SelectSeq(ops[c], LAMBDA o : o.op = name))

Issued(c, o) == \E i \in DOMAIN ops[c] : ops[c][i] = o

\* exactly one of a Lookup and an error
ExactlyOne(r) ==
    \/ r.lookup # NilLookup /\ r.err = NilErr
    \/ r.lookup = NilLookup /\ r.err # NilErr

FailedProbe(c) ==
    \E i \in DOMAIN ops[c] :
        /\ ops[c][i].op = "IsDeliverable"
        /\ ops[c][i].res = "err"
        /\ ops[c][i].le # ErrFullInbox

\* C2 as stated: after a failed real-address probe of any kind other than
\* MailboxFull, VerifyAddress returns an error and no Lookup.
C2_Original ==
    \A c \in Calls :
        (VADone(c) /\ FailedProbe(c)) => (vres[c].lookup = NilLookup /\ vres[c].err # NilErr)

\* C2 (amended): a failed real-address probe that parseRCPTErr classifies as a
\* non-nil error other than ErrFullInbox makes VerifyAddress return that error
\* and no Lookup; a failure for which parseRCPTErr returns nil is not an error:
\* VerifyAddress returns a Lookup with deliverable = false, fullInbox = false.
C2_AbortOnClassifiedFailure ==
    \A c \in Calls : VADone(c) =>
        \A i \in DOMAIN ops[c] :
            (ops[c][i].op = "IsDeliverable" /\ ops[c][i].res = "err") =>
                /\ ops[c][i].le \notin {NilErr, ErrFullInbox} =>
                      (vres[c].lookup = NilLookup /\ vres[c].err = ops[c][i].le)
                /\ ops[c][i].le = NilErr =>
                      /\ vres[c].err = NilErr
                      /\ vres[c].lookup # NilLookup
                      /\ ~vres[c].lookup[1].deliverable
                      /\ ~vres[c].lookup[1].fullInbox

\* VerifyAddress returned after a temporary rejection outlived its retries
C2_Witness ==
    \E c \in Calls : VADone(c) /\ Issued(c, Op("IsDeliverable", "err", ErrTemporaryRejection))

\* C3 as stated: Close is invoked exactly once on every path out of
\* VerifyAddress, the failed open included.
C3_Original ==
    \A c \in Calls : VADone(c) => Count(c, "Close") = 1

\* C3 (amended): Close is invoked exactly once, as the last probe operation,
\* on every path out of VerifyAddress on which the session opened (the
\* mid-probe error return included); when the open fails there is no session
\* and Close is not invoked.
C3_CloseOncePerOpenedSession ==
    \A c \in Calls : VADone(c) =>
        IF Issued(c, Op("Open", "ok", NilErr))
        THEN Count(c, "Close") = 1 /\ ops[c][Len(ops[c])].op = "Close"
        ELSE Count(c, "Close") = 0

\* VerifyAddress returned a mid-probe error and the session was closed
C3_Witness ==
    \E c \in Calls :
        VADone(c) /\ vres[c].err # NilErr /\ Count(c, "IsDeliverable") = 1 /\ Count(c, "Close") = 1

\* C4: when the goroutine's result was on the channel before the timer fired,
\* the caller of VerifyAddressTimeout receives exactly that result and never
\* the Timeout error.
C4_ResultFirstIsPropagated ==
    \A c \in Calls :
        (cpc[c] = "done" /\ entry[c] = "VerifyAddressTimeout" /\ first[c] = "result") =>
            /\ ret[c].via # "timeout"
            /\ ret[c].lookup = vres[c].lookup
            /\ ret[c].err = vres[c].err

\* the select of call c runs with the timer fired and nothing on the channel
TimerFirst(c) == cpc[c] = "select" /\ timer[c] = "fired" /\ ch[c] = <<>>

PossibleResults ==
    {Result(d, e, "direct") :
        d \in {NilLookup} \cup {<<l[c]>> : c \in Calls},
        e \in {NilErr} \cup ParseRCPTErrResults \cup ParseSTDErrResults}

\* C6: VerifyAddressTimeout returns the Lookup VerifyAddress produced, or the
\* error it produced, or the Timeout error; the default branch of the type
\* switch is never taken, for any result VerifyAddress could produce.
C6_GuardKeepsResult ==
    /\ \A c \in Calls : (cpc[c] = "done" /\ entry[c] = "VerifyAddressTimeout") =>
          /\ ret[c].via \in {"lookup", "error", "timeout"}
          /\ ret[c].via = "lookup" =>
                (VADone(c) /\ vres[c].err = NilErr /\ ret[c].lookup = vres[c].lookup /\ ret[c].err = NilErr)
          /\ ret[c].via = "error" =>
                (VADone(c) /\ vres[c].err # NilErr /\ ret[c].err = vres[c].err /\ ret[c].lookup = NilLookup)
          /\ ret[c].via = "timeout" => (ret[c].err = ErrTimeout /\ ret[c].lookup = NilLookup)
    /\ \A r \in PossibleResults :
          LET out == TypeSwitch(GoSend(r.lookup, r.err)) IN
          /\ out.via # "default"
          /\ out.err = r.err
          /\ r.err = NilErr => out.lookup = r.lookup

\* the caller of VerifyAddressTimeout received the error VerifyAddress returned
C6_Witness ==
    \E c \in Calls :
        cpc[c] = "done" /\ entry[c] = "VerifyAddressTimeout" /\ ret[c].via = "error"

\* C7: once HasCatchAll returned true, IsDeliverable is never invoked in that
\* call and the Lookup returned has catchAll, deliverable, hostExists true and
\* fullInbox false.
C7_CatchAllShortCircuit ==
    \A c \in Calls : Issued(c, Op("HasCatchAll", "true", NilErr)) =>
        /\ Count(c, "IsDeliverable") = 0
        /\ vpc[c] # "deliverable"
        /\ VADone(c) =>
              /\ vres[c].err = NilErr
              /\ vres[c].lookup # NilLookup
              /\ vres[c].lookup[1].catchAll
              /\ vres[c].lookup[1].deliverable
              /\ ~vres[c].lookup[1].fullInbox
              /\ vres[c].lookup[1].hostExists

\* VerifyAddress returned on a catch-all server
C7_Witness ==
    \E c \in Calls : VADone(c) /\ Issued(c, Op("HasCatchAll", "true", NilErr))

\* the Lookups call c has handed out: by VerifyAddress and to the caller
ReturnedLookups(c) ==
    (IF VADone(c) /\ vres[c].lookup # NilLookup THEN {vres[c].lookup[1]} ELSE {})
    \cup (IF cpc[c] = "done" /\ ret[c].lookup # NilLookup THEN {ret[c].lookup[1]} ELSE {})

\* C8: in every returned Lookup, fullInbox implies not deliverable and not
\* catchAll.
C8_FullInboxExcludes ==
    \A c \in Calls : \A lk \in ReturnedLookups(c) :
        lk.fullInbox => (~lk.deliverable /\ ~lk.catchAll)

\* a Lookup with fullInbox set was returned
C8_Witness ==
    \E c \in Calls : \E lk \in ReturnedLookups(c) : lk.fullInbox

\* C9: in every returned Lookup, catchAll implies deliverable.
C9_CatchAllIsDeliverable ==
    \A c \in Calls : \A lk \in ReturnedLookups(c) : lk.catchAll => lk.deliverable

\* a caller received a Lookup with catchAll set
C9_Witness ==
    \E c \in Calls : cpc[c] = "done" /\ ret[c].lookup # NilLookup /\ ret[c].lookup[1].catchAll

NoHostConsistent(lk) ==
    ~lk.hostExists => (~lk.deliverable /\ ~lk.catchAll /\ ~lk.fullInbox)

\* C10: hostExists = false implies deliverable, catchAll and fullInbox false,
\* in every returned Lookup and in the Lookup VerifyAddress is populating
\* (the only one in which the code ever clears hostExists).
C10_NoHostNoSignal ==
    \A c \in Calls :
        /\ NoHostConsistent(l[c])
        /\ \A lk \in ReturnedLookups(c) : NoHostConsistent(lk)

\* VerifyAddress cleared hostExists on its Lookup after a failed open
C10_Witness ==
    \E c \in Calls : VADone(c) /\ l[c].address = AddressOf(c) /\ ~l[c].hostExists

\* C11: VerifyEmail on a string ParseAddress rejects returns
\* ErrEmailParseFailure and no Lookup, and up to that return the call has made
\* no disposable lookup, no gravatar lookup and no probe open, and has not
\* entered VerifyAddress.
C11_ParseFailureBeforeNetwork ==
    \A c \in Calls :
        /\ cpc[c] \in {"idle", "parse"} => (ops[c] = <<>> /\ vpc[c] = "idle")
        /\ (cpc[c] = "done" /\ ret[c].via = "parse") =>
              /\ entry[c] = "VerifyEmail"
              /\ ret[c].lookup = NilLookup
              /\ ret[c].err = ErrEmailParseFailure
              /\ ops[c] = <<>>
              /\ vpc[c] = "idle"

\* VerifyEmail returned after ParseAddress rejected the string
C11_Witness ==
    \E c \in Calls : cpc[c] = "done" /\ entry[c] = "VerifyEmail" /\ ret[c].via = "parse"

\* the open of call c failed
OpenFailure(c) ==
    \E i \in DOMAIN ops[c] : ops[c][i].op = "Open" /\ ops[c][i].res = "fail"

\* C12: when opening the probe fails, whatever the kind, VerifyAddress has
\* returned an error and no Lookup, and neither HasCatchAll nor IsDeliverable
\* is ever invoked in that call.
C12_OpenFailureTerminates ==
    \A c \in Calls : OpenFailure(c) =>
        /\ VADone(c)
        /\ vres[c].lookup = NilLookup
        /\ vres[c].err # NilErr
        /\ Count(c, "HasCatchAll") = 0
        /\ Count(c, "IsDeliverable") = 0

\* an open failure that is not NoSuchHost reached the caller
C12_Witness ==
    \E c \in Calls :
        /\ cpc[c] = "done"
        /\ Issued(c, Op("Open", "fail", ErrTemporaryRejection))
        /\ ret[c].err = ErrUnexpectedResponse

\* C13: session opened, HasCatchAll false, IsDeliverable failed with
\* ErrFullInbox: VerifyAddress returns a nil error and a Lookup with
\* fullInbox true, deliverable false, catchAll false, hostExists true.
C13_FullInboxIsAVerdict ==
    \A c \in Calls :
        (VADone(c) /\ Issued(c, Op("IsDeliverable", "err", ErrFullInbox))) =>
            /\ Issued(c, Op("Open", "ok", NilErr))
            /\ Issued(c, Op("HasCatchAll", "false", NilErr))
            /\ vres[c].err = NilErr
            /\ vres[c].lookup # NilLookup
            /\ vres[c].lookup[1].fullInbox
            /\ ~vres[c].lookup[1].deliverable
            /\ ~vres[c].lookup[1].catchAll
            /\ vres[c].lookup[1].hostExists

\* VerifyAddress returned after a full-inbox rejection
C13_Witness ==
    \E c \in Calls : VADone(c) /\ Issued(c, Op("IsDeliverable", "err", ErrFullInbox))

\* C14: in every Lookup VerifyAddress returns, deliverable is true exactly
\* when HasCatchAll returned true or IsDeliverable returned a nil error; a
\* rejected catch-all test followed by an accepted real-address probe gives
\* deliverable true, fullInbox false, catchAll false.
C14_DeliverableIff ==
    \A c \in Calls : (VADone(c) /\ vres[c].lookup # NilLookup) =>
        /\ vres[c].lookup[1].deliverable <=>
              (\/ Issued(c, Op("HasCatchAll", "true", NilErr))
               \/ Issued(c, Op("IsDeliverable", "nil", NilErr)))
        /\ Issued(c, Op("IsDeliverable", "nil", NilErr)) =>
              /\ vres[c].lookup[1].deliverable
              /\ ~vres[c].lookup[1].fullInbox
              /\ ~vres[c].lookup[1].catchAll

\* a Lookup came back after the real-address probe was accepted
C14_Witness ==
    \E c \in Calls :
        VADone(c) /\ vres[c].lookup # NilLookup /\ Issued(c, Op("IsDeliverable", "nil", NilErr))

\* C15 as stated: every failed open, whatever its kind, leaves hostExists
\* false on the Lookup being built.
C15_Original ==
    \A c \in Calls : (VADone(c) /\ OpenFailure(c)) => ~l[c].hostExists

\* C15 (amended): a failed open clears hostExists on the Lookup being built
\* only when parseRCPTErr classifies the failure as ErrNoSuchHost; for every
\* other open failure (parseRCPTErr returning nil included) hostExists stays
\* true.  Either way the Lookup is dropped and the call returns its error.
C15_NoHostOnlyOnNoSuchHost ==
    \A c \in Calls : VADone(c) =>
        \A i \in DOMAIN ops[c] :
            (ops[c][i].op = "Open" /\ ops[c][i].res = "fail") =>
                /\ l[c].hostExists <=> ops[c][i].le # ErrNoSuchHost
                /\ vres[c].lookup = NilLookup

\* the open failed with ErrNoSuchHost and hostExists was cleared
C15_Witness ==
    \E c \in Calls :
        VADone(c) /\ Issued(c, Op("Open", "fail", ErrNoSuchHost)) /\ ~l[c].hostExists

ProbeOpNames == {"Open", "HasCatchAll", "IsDeliverable", "Close"}

\* the probe operations of call c, in the order they were issued
ProbeOps(c) == SelectSeq(ops[c], LAMBDA o : o.op \in ProbeOpNames)

\* C16: the probe operations of one VerifyAddress call come in the order
\* Open, HasCatchAll, IsDeliverable, Close, each at most once: HasCatchAll
\* directly after a successful Open, IsDeliverable directly after a
\* HasCatchAll that returned false, Close after the last of them and nothing
\* after Close.
C16_ProbeOrder ==
    \A c \in Calls :
        LET p == ProbeOps(c) IN
        \A i \in DOMAIN p :
            /\ (i = 1) <=> (p[i].op = "Open")
            /\ p[i].op = "HasCatchAll" => (i = 2 /\ p[1].res = "ok")
            /\ p[i].op = "IsDeliverable" =>
                  (i = 3 /\ p[2].op = "HasCatchAll" /\ p[2].res = "false")
            /\ p[i].op = "Close" =>
                  /\ i = Len(p)
                  /\ i > 2
                  /\ p[i - 1].op \in {"HasCatchAll", "IsDeliverable"}
                  /\ VADone(c)

\* a call issued all four probe operations
C16_Witness ==
    \E c \in Calls : Len(ProbeOps(c)) = 4 /\ ProbeOps(c)[4].op = "Close"

\* lk with other answers of the disposable and gravatar collaborators
WithSignals(lk, disp, grav) == [lk EXCEPT !.disposable = disp, !.gravatar = grav]

\* C17: the disposable and gravatar fields of the Lookup are the answers of
\* the two collaborators at every stage and in every returned Lookup, and
\* each probe stage commutes with a change of those answers: it leaves the
\* two fields alone and sets the probe fields, its branch and its error the
\* same way whatever the collaborators answered.
C17_SignalsAreFramed ==
    \A c \in Calls : vpc[c] \notin {"idle", "start"} =>
        /\ ops[c][1].op = "IsDisposable"
        /\ ops[c][2].op = "HasGravatar"
        /\ l[c].disposable = (ops[c][1].res = "true")
        /\ l[c].gravatar = (ops[c][2].res = "true")
        /\ \A lk \in ReturnedLookups(c) :
              lk.disposable = l[c].disposable /\ lk.gravatar = l[c].gravatar
        /\ \A disp \in BOOLEAN, grav \in BOOLEAN :
              LET lk == l[c]
                  w  == WithSignals(l[c], disp, grav) IN
              /\ \A b \in BOOLEAN :
                    /\ HasCatchAllResult(w, b) = WithSignals(HasCatchAllResult(lk, b), disp, grav)
                    /\ ProbeAddress(HasCatchAllResult(w, b)) = ProbeAddress(HasCatchAllResult(lk, b))
              /\ \A o \in IsDeliverableOutcomes :
                    /\ IsDeliverableResult(w, o).l = WithSignals(IsDeliverableResult(lk, o).l, disp, grav)
                    /\ IsDeliverableResult(w, o).returns = IsDeliverableResult(lk, o).returns
                    /\ IsDeliverableResult(w, o).res = IsDeliverableResult(lk, o).res
              /\ \A le \in ParseRCPTErrResults, se \in ParseSTDErrResults :
                    /\ OpenFailed(w, le, se).l = WithSignals(OpenFailed(lk, le, se).l, disp, grav)
                    /\ OpenFailed(w, le, se).res = OpenFailed(lk, le, se).res

\* a caller received a Lookup flagged disposable with a gravatar
C17_Witness ==
    \E c \in Calls :
        /\ cpc[c] = "done"
        /\ ret[c].lookup # NilLookup
        /\ ret[c].lookup[1].disposable
        /\ ret[c].lookup[1].gravatar
        /\ Issued(c, Op("IsDisposable", "true", NilErr))

\* C18: in VerifyAddressTimeout the goroutine's send never blocks: whenever
\* VerifyAddress has returned the send can proceed, whatever the caller has
\* done, the channel never holds more than one value, and the goroutine does
\* complete its send and terminate.
C18_SendNeverBlocks ==
    /\ [](\A c \in Calls : entry[c] = "VerifyAddressTimeout" =>
            /\ Len(ch[c]) <= 1
            /\ vpc[c] = "returned" => ENABLED VT_Send(c))
    /\ \A c \in Calls :
          (entry[c] = "VerifyAddressTimeout" /\ vpc[c] = "returned") ~> (vpc[c] = "exit")

\* the goroutine sent its result after the caller had returned Timeout
C18_Witness ==
    \E c \in Calls :
        cpc[c] = "done" /\ ret[c].via = "timeout" /\ vpc[c] = "exit" /\ Len(ch[c]) = 1

\* the caller of call c returned Timeout
Abandoned(c) == cpc[c] = "done" /\ ret[c].via = "timeout"

\* C19: after VerifyAddressTimeout returned Timeout the background
\* VerifyAddress is not cancelled: its next stage stays enabled and it runs to
\* its end, what the caller received never changes and the result stays
\* unread on the channel, and a session it opened is closed by it.
C19_AbandonedRunsOn ==
    /\ [](\A c \in Calls : Abandoned(c) =>
            /\ vpc[c] # "exit" => ENABLED (VerifyAddress(c) \/ VT_Send(c))
            /\ vpc[c] = "exit" => Len(ch[c]) = 1
            /\ ret[c].lookup = NilLookup
            /\ ret[c].err = ErrTimeout)
    /\ [][\A c \in Calls : cpc[c] = "done" => (cpc'[c] = "done" /\ ret'[c] = ret[c])]_vars
    /\ \A c \in Calls : Abandoned(c) ~> (vpc[c] = "exit")
    /\ \A c \in Calls :
          (Abandoned(c) /\ Issued(c, Op("Open", "ok", NilErr))) ~> (Count(c, "Close") = 1)

\* an abandoned verification closed its session and left its result unread
C19_Witness ==
    \E c \in Calls :
        /\ Abandoned(c)
        /\ vpc[c] = "exit"
        /\ Count(c, "Close") = 1
        /\ Len(ch[c]) = 1
        /\ vres[c].lookup # NilLookup

\* the state of call d is left as it is by a step
CallUnchanged(d) ==
    /\ entry'[d] = entry[d]
    /\ cpc'[d] = cpc[d]
    /\ vpc'[d] = vpc[d]
    /\ l'[d] = l[d]
    /\ ops'[d] = ops[d]
    /\ vres'[d] = vres[d]
    /\ ch'[d] = ch[d]
    /\ timer'[d] = timer[d]
    /\ first'[d] = first[d]
    /\ ret'[d] = ret[d]

\* the Lookup that the answers given to call c alone determine
OwnLookup(c) ==
    [address    |-> AddressOf(c),
     deliverable |-> \/ Issued(c, Op("HasCatchAll", "true", NilErr))
                     \/ Issued(c, Op("IsDeliverable", "nil", NilErr)),
     fullInbox  |-> Issued(c, Op("IsDeliverable", "err", ErrFullInbox)),
     hostExists |-> TRUE,
     catchAll   |-> Issued(c, Op("HasCatchAll", "true", NilErr)),
     disposable |-> Issued(c, Op("IsDisposable", "true", NilErr)),
     gravatar   |-> Issued(c, Op("HasGravatar", "true", NilErr))]

\* C20: with two calls interleaved on one Verifier, every step is the step of
\* one call and leaves the other call's Lookup, probe session log, channel,
\* timer and results untouched, and every Lookup a call hands out is the one
\* determined by its own address and the answers its own collaborator calls
\* got.
C20_CallsShareNothing ==
    /\ [][\E c \in Calls : \A d \in Calls \ {c} : CallUnchanged(d)]_vars
    /\ [](\A c \in Calls : \A lk \in ReturnedLookups(c) : lk = OwnLookup(c))

\* one call has returned its Lookup while the other call's session is open
\* between its two probes, the two having got different answers
C20_Witness ==
    \E c \in Calls, d \in Calls :
        /\ c # d
        /\ VADone(c)
        /\ vres[c].lookup # NilLookup
        /\ vres[c].lookup[1].catchAll
        /\ vpc[d] = "deliverable"
        /\ l[d].disposable # l[c].disposable

====
